---- MODULE Spec2Model ----
(***************************************************************************)
(* A model of parse-video-py's HTTP entry points (src/main.py): module     *)
(* evaluation, the Basic-auth dependency, the two resolve handlers         *)
(* (share_url_parse, video_id_parse), the index page (read_item) and the   *)
(* resource proxy (download_proxy).                                        *)
(*                                                                         *)
(* Text is a sequence of one-character strings.  The element "U770B"       *)
(* stands for one CJK letter (a character that Python's \w matches but     *)
(* that is not ASCII); a configured value "pU00E4ss" stands for a string   *)
(* holding a non-ASCII letter.                                             *)
(*                                                                         *)
(* Spec is the program as it stands: module evaluation from the empty      *)
(* namespace, which stops at line 62, and requests that then find nothing  *)
(* listening.  SpecHarness adds the handlers as they behave when a host    *)
(* has bound Query before evaluating the module; it is the only way to     *)
(* exercise the handler code, and no launch of the program provides it.    *)
(***************************************************************************)
EXTENDS Naturals, Sequences, FiniteSets, TLC

(***************************************************************************)
(* Bounds of the model.                                                    *)
(***************************************************************************)
\* Share texts are concatenations of at most MaxTokens tokens of TextTokens.
MaxTokens == 3
\* Upstream bodies hold at most MaxBody bytes.
MaxBody == 2

None == "None"

(***************************************************************************)
(* Characters and the character classes of url_reg (line 114).             *)
(***************************************************************************)
Letters == {"h", "t", "p", "s", "a", "b", "k", "v", "x"}
Digits == {"1"}
CJK == {"U770B"}
\* \w on a str pattern: Unicode letters, digits and the underscore.
WordChars == Letters \cup Digits \cup CJK \cup {"_"}
\* [\w.-]
HostChars == WordChars \cup {".", "-"}
\* [\w\/-]
PathChars == WordChars \cup {"/", "-"}
\* [\w=&:\-\+\%]
QueryChars == WordChars \cup {"=", "&", ":", "-", "+", "%"}
\* [/]
SlashChars == {"/"}

LitHttp == <<"h", "t", "t", "p">>
LitS == <<"s">>
LitColonSlashSlash == <<":", "/", "/">>

\* text has the literal lit at position i.
HasPrefix(text, i, lit) ==
    /\ i + Len(lit) - 1 <= Len(text)
    /\ \A k \in 1..Len(lit) : text[i + k - 1] = lit[k]

\* The number of consecutive characters of text from position i on that are
\* in class: what a greedy  [class]*  consumes.
RECURSIVE Span(_, _, _)
Span(text, i, class) ==
    IF i <= Len(text) /\ text[i] \in class
    THEN 1 + Span(text, i + 1, class)
    ELSE 0

\* url_reg matched at position i: the position just after the match, or 0 when
\* the pattern does not match there.  Every quantifier is greedy, and all that
\* follows  [\w.-]+  is optional, so the first (greedy) path the matcher
\* tries is the one that succeeds.
MatchAt(text, i) ==
    IF ~HasPrefix(text, i, LitHttp) THEN 0
    ELSE
      LET j0 == i + Len(LitHttp)
          \* [s]? takes an "s" when "://" can follow it, else nothing
          j1 == IF HasPrefix(text, j0, LitS)
                    /\ HasPrefix(text, j0 + 1, LitColonSlashSlash)
                THEN j0 + 1 ELSE j0
      IN IF ~HasPrefix(text, j1, LitColonSlashSlash) THEN 0
         ELSE
           LET a == j1 + Len(LitColonSlashSlash)
               nA == Span(text, a, HostChars)
               b == a + nA
               c == b + Span(text, b, PathChars)
               d == c + Span(text, c, HostChars)
               e == IF d <= Len(text) /\ text[d] = "?" THEN d + 1 ELSE d
               f == e + Span(text, e, QueryChars)
               g == f + Span(text, f, SlashChars)
           IN IF nA = 0 THEN 0 ELSE g

\* The positions of text at which url_reg matches.
MatchStarts(text) == {i \in 1..Len(text) : MatchAt(text, i) # 0}

NoMatch == [found |-> FALSE, group |-> <<>>]

\* The changed search: the match at the last position where the pattern
\* matches.
SearchLast(text) ==
    IF MatchStarts(text) = {} THEN NoMatch
    ELSE LET i == CHOOSE m \in MatchStarts(text) :
                      \A n \in MatchStarts(text) : n <= m
         IN [found |-> TRUE, group |-> SubSeq(text, i, MatchAt(text, i) - 1)]

\* url_reg.search(url): the match at the leftmost position where the pattern
\* matches (found, and the matched text as .group() gives it), or None (not
\* found).
Search(text) ==
    IF MatchStarts(text) = {} THEN NoMatch
    ELSE LET i == CHOOSE m \in MatchStarts(text) :
                      \A n \in MatchStarts(text) : m <= n
         IN [found |-> TRUE, group |-> SubSeq(text, i, MatchAt(text, i) - 1)]

(***************************************************************************)
(* Inputs: the raw texts a caller submits to /video/share/url/parse.       *)
(***************************************************************************)
\* "http://a.b/x?k=v"
TokUrlA == <<"h", "t", "t", "p", ":", "/", "/", "a", ".", "b", "/", "x",
             "?", "k", "=", "v">>
\* "https://b.a/"
TokUrlB == <<"h", "t", "t", "p", "s", ":", "/", "/", "b", ".", "a", "/">>
\* "http://": a scheme with no host after it
TokScheme == <<"h", "t", "t", "p", ":", "/", "/">>
\* "x-1": a word
TokWord == <<"x", "-", "1">>
TokSpace == <<" ">>
TokCJK == <<"U770B">>
TextTokens == {TokUrlA, TokUrlB, TokScheme, TokWord, TokSpace, TokCJK}

RECURSIVE TextsOfLen(_)
TextsOfLen(n) ==
    IF n = 0 THEN {<<>>}
    ELSE {t \o tok : t \in TextsOfLen(n - 1), tok \in TextTokens}

Texts == UNION {TextsOfLen(n) : n \in 0..MaxTokens}

(***************************************************************************)
(* Module evaluation (lines 1-137).                                        *)
(***************************************************************************)
RouteProxy == "/download_proxy"
RouteIndex == "/"
RouteShare == "/video/share/url/parse"
RouteId == "/video/id/parse"
Routes == {RouteProxy, RouteIndex, RouteShare, RouteId}

\* The names Python resolves without an import.
Builtins == {"str", "list", "Exception"}

\* The names lines 1-12 bind.
ImportedNames ==
    {"os", "re", "secrets", "VideoSource", "parse_video_id",
     "parse_video_share_url", "httpx", "uvicorn", "Depends", "FastAPI",
     "HTTPException", "Request", "status", "CORSMiddleware", "HTMLResponse",
     "StreamingResponse", "HTTPBasic", "HTTPBasicCredentials",
     "Jinja2Templates"}

\* The top-level statements of the module, in order.
LoadOrder ==
    <<"imports", "setup", "def_get_auth_dependency", "def_download_proxy",
      "def_read_item", "def_share_url_parse", "def_video_id_parse">>

\* The names a top-level statement looks up while it is executed: for a
\* function definition these are the names in its decorator, its parameter
\* annotations and its parameter defaults (the body is not run).
NamesUsed(stmt) ==
    CASE stmt = "imports" -> {}
      [] stmt = "setup" -> {"FastAPI", "CORSMiddleware", "Jinja2Templates"}
      [] stmt = "def_get_auth_dependency" -> {"list", "Depends"}
      [] stmt = "def_download_proxy" -> {"app", "str", "Query"}
      [] stmt = "def_read_item" ->
             {"app", "HTMLResponse", "get_auth_dependency", "Request"}
      [] stmt = "def_share_url_parse" -> {"app", "get_auth_dependency", "str"}
      [] stmt = "def_video_id_parse" ->
             {"app", "get_auth_dependency", "VideoSource", "str"}

\* The names a top-level statement binds when it completes.
NamesBound(stmt) ==
    CASE stmt = "imports" -> ImportedNames
      [] stmt = "setup" -> {"app", "templates"}
      [] stmt = "def_get_auth_dependency" -> {"get_auth_dependency"}
      [] stmt = "def_download_proxy" -> {"download_proxy"}
      [] stmt = "def_read_item" -> {"read_item"}
      [] stmt = "def_share_url_parse" -> {"share_url_parse"}
      [] stmt = "def_video_id_parse" -> {"video_id_parse"}

\* The route a decorated definition registers on app.
RouteOf(stmt) ==
    CASE stmt = "def_download_proxy" -> {RouteProxy}
      [] stmt = "def_read_item" -> {RouteIndex}
      [] stmt = "def_share_url_parse" -> {RouteShare}
      [] stmt = "def_video_id_parse" -> {RouteId}
      [] OTHER -> {}

(***************************************************************************)
(* Basic auth (lines 28-58).                                               *)
(***************************************************************************)
\* os.getenv of a variable that is not set.
Unset == "<unset>"
\* A configured value that holds a non-ASCII letter.
NonAsciiValue == "pU00E4ss"
\* The configurations of (PARSE_VIDEO_USERNAME, PARSE_VIDEO_PASSWORD).
EnvConfigs == {<<Unset, "s3cret">>, <<"admin", "">>, <<"admin", "s3cret">>,
               <<"admin", NonAsciiValue>>}

\* Python truthiness of os.getenv's result: None and "" are false.
Truthy(v) == v # Unset /\ v # ""

IsAscii(v) == v # NonAsciiValue

\* What a request carries in its Authorization header: nothing, or a
\* username and a password (HTTPBasic decodes them as ASCII).
NoCreds == [present |-> FALSE, username |-> "", password |-> ""]
Credentials ==
    {NoCreds} \cup
    {[present |-> TRUE, username |-> "admin", password |-> "s3cret"],
     [present |-> TRUE, username |-> "admin", password |-> "wrong"],
     [present |-> TRUE, username |-> "guest", password |-> "s3cret"]}

\* secrets.compare_digest on two str: a TypeError unless both are ASCII.
CompareDigest(a, b) ==
    IF ~IsAscii(a) \/ ~IsAscii(b)
    THEN [raises |-> TRUE, value |-> FALSE]
    ELSE [raises |-> FALSE, value |-> (a = b)]

\* verify_credentials (lines 42-56): "ok", "401" or "TypeError".
VerifyCredentials(c, user, pass) ==
    LET cu == CompareDigest(c.username, user)
    IN IF cu.raises THEN "TypeError"
       ELSE LET cp == CompareDigest(c.password, pass)
            IN IF cp.raises THEN "TypeError"
               ELSE IF ~(cu.value /\ cp.value) THEN "401"
               ELSE "ok"

\* get_auth_dependency (lines 28-58): the dependencies of a gated route.
GetAuthDependency(user, pass) ==
    IF ~(Truthy(user) /\ Truthy(pass)) THEN <<>>
    ELSE <<"verify_credentials">>

\* The dependencies each route is declared with (lines 61, 101, 112, 127).
RouteDependencies(r, user, pass) ==
    IF r = RouteProxy THEN <<>> ELSE GetAuthDependency(user, pass)

\* Running a route's dependencies on a request: HTTPBasic answers 401 when
\* the request has no credentials, then verify_credentials decides.
RunDependencies(r, c, user, pass) ==
    IF RouteDependencies(r, user, pass) = <<>> THEN "ok"
    ELSE IF ~c.present THEN "401"
    ELSE VerifyCredentials(c, user, pass)

(***************************************************************************)
(* Responses.                                                              *)
(***************************************************************************)
NoResp == [status |-> 0, via |-> None, ctype |-> None, clen |-> None,
           disp |-> None, body |-> None, exc |-> None]

\* No response at all: nothing listens.
NoAnswer == [status |-> 0, via |-> "refused", ctype |-> None, clen |-> None,
             disp |-> None, body |-> None, exc |-> None]

\* An HTTPException raised by a handler or a dependency: FastAPI answers with
\* the status and a JSON body holding the detail.
HTTPExceptionResp(code, detail) ==
    [status |-> code, via |-> "HTTPException", ctype |-> "application/json",
     clen |-> None, disp |-> None, body |-> [detail |-> detail],
     exc |-> "HTTPException"]

\* An exception no handler catches: the server answers 500.
UnhandledResp(e) ==
    [status |-> 500, via |-> "unhandled", ctype |-> "text/plain",
     clen |-> None, disp |-> None, body |-> "Internal Server Error",
     exc |-> e]

\* A dict a handler returns: FastAPI serialises it as JSON with status 200.
JsonResp(b) ==
    [status |-> 200, via |-> "return", ctype |-> "application/json",
     clen |-> None, disp |-> None, body |-> b, exc |-> None]

\* read_item's TemplateResponse (lines 103-109).
TemplateResp ==
    [status |-> 200, via |-> "return", ctype |-> "text/html",
     clen |-> None, disp |-> None,
     body |-> [name |-> "index.html",
               title |-> "github.com/wujunwei928/parse-video-py Demo"],
     exc |-> None]

(***************************************************************************)
(* The resolver (package parser): parse_video_share_url and parse_video_id *)
(* either return a video_info or raise.                                    *)
(***************************************************************************)
ErrorKinds == {"NotFoundError", "UpstreamFormatError", "NetworkError",
               "UnsupportedSourceError"}
ErrorMsgs == {"no video found", "request failed"}
VideoInfos == {[video_url |-> "https://cdn.example.com/v.mp4",
                title |-> "demo"]}
ResolverOutcomes ==
    [ok : {TRUE}, kind : {None}, msg : {None}, info : VideoInfos]
    \cup [ok : {FALSE}, kind : ErrorKinds, msg : ErrorMsgs, info : {None}]
NoOutcome == [ok |-> FALSE, kind |-> None, msg |-> None, info |-> None]

Sources == {"douyin", "kuaishou"}
VideoIds == {"7001"}

\* What the handlers return once the awaited resolver has answered
\* (lines 119-124 and 131-136).
ResolveResult(o) ==
    IF o.ok
    THEN JsonResp([code |-> 200, msg |-> "MSG_PARSE_OK", data |-> o.info])
    ELSE JsonResp([code |-> 500, msg |-> o.msg])

(***************************************************************************)
(* The resource proxy (lines 61-98).                                       *)
(***************************************************************************)
ProxyUrls == {"", "https://cdn.example.com/v.mp4",
              "https://sns-video-bd.xhscdn.com/v.mp4",
              "https://v.douyin.com/v.mp4"}

\* The request headers of lines 71-76.
ProxyHeaders ==
    [UserAgent |-> "Mozilla/5.0 (Windows NT 10.0; Win64; x64) AppleWebKit/537.36 (KHTML, like Gecko) Chrome/119.0.0.0 Safari/537.36",
     Referer |-> "https://www.xiaohongshu.com/"]
NoRequest == [url |-> None, headers |-> None]

Bytes == {0, 1}
RECURSIVE BodiesOfLen(_)
BodiesOfLen(n) ==
    IF n = 0 THEN {<<>>}
    ELSE {b \o <<c>> : b \in BodiesOfLen(n - 1), c \in Bytes}
Bodies == UNION {BodiesOfLen(n) : n \in 0..MaxBody}

UpstreamStatuses == {200, 206, 403, 404, 502}
UpstreamContentTypes == {None, "video/mp4", "application/json",
                         "application/xml"}
\* What the upstream answers to the GET (after redirects), or a transport
\* failure (httpx.RequestError).
UpstreamResponses ==
    {[failed |-> FALSE, status |-> st, ctype |-> ct,
      clen |-> IF hasLen THEN ToString(Len(b)) ELSE None, body |-> b] :
        st \in UpstreamStatuses, ct \in UpstreamContentTypes,
        hasLen \in BOOLEAN, b \in Bodies}
RequestError ==
    [failed |-> TRUE, status |-> 0, ctype |-> None, clen |-> None,
     body |-> <<>>]
UpstreamOutcomes == UpstreamResponses \cup {RequestError}
NoUpstream ==
    [failed |-> FALSE, status |-> 0, ctype |-> None, clen |-> None,
     body |-> <<>>]

\* The state of an httpx response's byte stream.
FreshStream == [consumed |-> FALSE, closed |-> FALSE]

\* client.get(url, headers=headers) (line 81): without stream=True the client
\* reads the whole body into memory and closes the response before returning.
ClientGet(st) == [consumed |-> TRUE, closed |-> TRUE]

\* resp.raise_for_status() (line 82): raises HTTPStatusError off the 2xx range.
RaisesForStatus(status) == status \notin 200..299

\* Iterating resp.aiter_raw() (line 86): the raw bytes, unless the stream was
\* already consumed or closed.
AiterRaw(st, body) ==
    IF st.consumed THEN [error |-> "StreamConsumed", bytes |-> <<>>]
    ELSE IF st.closed THEN [error |-> "StreamClosed", bytes |-> <<>>]
    ELSE [error |-> None, bytes |-> body]

\* The StreamingResponse of lines 85-93.
StreamingResp(up) ==
    [status |-> up.status, via |-> "stream",
     ctype |-> IF up.ctype = None THEN "application/octet-stream"
               ELSE up.ctype,
     clen |-> IF up.clen = None THEN "0" ELSE up.clen,
     disp |-> "inline", body |-> None, exc |-> None]

\* What download_proxy answers to an upstream outcome (lines 82-98).
ProxyResult(up) ==
    IF up.failed THEN HTTPExceptionResp(500, "RequestError")
    ELSE IF RaisesForStatus(up.status)
         THEN HTTPExceptionResp(up.status, "HTTPStatusError")
         ELSE StreamingResp(up)

(***************************************************************************)
(* State.                                                                  *)
(***************************************************************************)
VARIABLES
    loadPc,        \* index in LoadOrder of the next top-level statement
    bound,         \* the module's global names bound so far
    registered,    \* the routes registered on app
    loadError,     \* the exception that ended module evaluation, or None
    envUser,       \* os.getenv("PARSE_VIDEO_USERNAME")
    envPass,       \* os.getenv("PARSE_VIDEO_PASSWORD")
    pc,            \* where the request in hand is
    route,         \* its route
    creds,         \* its Authorization credentials
    arg,           \* its query arguments
    call,          \* the resolver call the handler made
    outcome,       \* what the resolver answered
    resolverCalls, \* resolver calls made for this request
    upstreamGets,  \* upstream GETs issued for this request
    upreq,         \* the upstream GET issued by download_proxy
    upstream,      \* what the upstream answered
    stream,        \* the state of the upstream response's byte stream
    resp,          \* the response given to the caller
    delivered,     \* the body bytes the caller received from a stream
    streamError    \* the exception that ended the streaming, or None

vars == <<loadPc, bound, registered, loadError, envUser, envPass, pc, route,
          creds, arg, call, outcome, resolverCalls, upstreamGets, upreq,
          upstream, stream, resp, delivered, streamError>>

loadVars == <<loadPc, bound, registered, loadError>>
envVars == <<envUser, envPass>>
reqVars == <<route, creds, arg>>
resolveVars == <<call, outcome, resolverCalls>>
proxyVars == <<upstreamGets, upreq, upstream, stream, delivered, streamError>>

NoCall == [made |-> FALSE, fn |-> None, arg |-> <<>>]

\* Module evaluation has ended: every statement ran, or one raised.
Halted == loadError # None \/ loadPc > Len(LoadOrder)

\* The state before the module is evaluated, given the names already bound
\* in the namespace it is evaluated in.
InitWith(namespace) ==
    /\ loadPc = 1
    /\ bound = namespace
    /\ registered = {}
    /\ loadError = None
    /\ \E cfg \in EnvConfigs : envUser = cfg[1] /\ envPass = cfg[2]
    /\ pc = "idle"
    /\ route = None
    /\ creds = NoCreds
    /\ arg = None
    /\ call = NoCall
    /\ outcome = NoOutcome
    /\ resolverCalls = 0
    /\ upstreamGets = 0
    /\ upreq = NoRequest
    /\ upstream = NoUpstream
    /\ stream = FreshStream
    /\ resp = NoResp
    /\ delivered = <<>>
    /\ streamError = None

\* The program as it stands (python main.py, uvicorn main:app): nothing is
\* bound before line 1.
Init == InitWith({})

\* The handlers under a harness: a host that binds Query before it evaluates
\* the module, so that the definitions from line 61 on are reached.  No launch
\* of the program supplies this namespace; InitHarness covers both.
HarnessNamespace == {"Query"}
InitHarness == InitWith({}) \/ InitWith(HarnessNamespace)

(***************************************************************************)
(* Module evaluation: one top-level statement at a time.  A statement that *)
(* looks up a name that is not bound raises NameError, which ends the      *)
(* evaluation of the module.                                               *)
(***************************************************************************)
LoadModule ==
    /\ ~Halted
    /\ LET stmt == LoadOrder[loadPc]
       IN IF NamesUsed(stmt) \subseteq (bound \cup Builtins)
          THEN /\ bound' = bound \cup NamesBound(stmt)
               /\ registered' = registered \cup RouteOf(stmt)
               /\ loadPc' = loadPc + 1
               /\ loadError' = None
          ELSE /\ loadError' = "NameError"
               /\ UNCHANGED <<bound, registered, loadPc>>
    /\ UNCHANGED <<envVars, pc, reqVars, resolveVars, proxyVars, resp>>

(***************************************************************************)
(* One request: the behaviour of each route's dependencies and handler     *)
(* function on it.                                                         *)
(***************************************************************************)
ArgsOf(r) ==
    CASE r = RouteShare -> Texts
      [] r = RouteId -> [source : Sources, video_id : VideoIds]
      [] r = RouteProxy -> ProxyUrls
      [] r = RouteIndex -> {None}

CredentialsOf(r) == IF r = RouteProxy THEN {NoCreds} ELSE Credentials

\* A request for a registered route: its dependencies run next.
Arrive ==
    /\ Halted
    /\ pc = "idle"
    /\ \E r \in registered : \E c \in CredentialsOf(r) : \E a \in ArgsOf(r) :
          /\ route' = r
          /\ creds' = c
          /\ arg' = a
    /\ pc' = "deps"
    /\ UNCHANGED <<loadVars, envVars, resolveVars, proxyVars, resp>>

\* A request sent to the program after module evaluation ended in an error:
\* the process has exited (lines 139-140 are never reached) and nothing
\* answers.
Refused ==
    /\ loadError # None
    /\ pc = "idle"
    /\ \E r \in Routes : \E c \in CredentialsOf(r) : \E a \in ArgsOf(r) :
          /\ route' = r
          /\ creds' = c
          /\ arg' = a
    /\ resp' = NoAnswer
    /\ pc' = "done"
    /\ UNCHANGED <<loadVars, envVars, resolveVars, proxyVars>>

\* The route's dependencies run before its handler.
RunDeps ==
    /\ pc = "deps"
    /\ LET d == RunDependencies(route, creds, envUser, envPass)
       IN CASE d = "ok" -> pc' = "handler" /\ resp' = resp
            [] d = "401" ->
                 /\ pc' = "done"
                 /\ resp' = HTTPExceptionResp(401, "Unauthorized")
            [] d = "TypeError" ->
                 /\ pc' = "done"
                 /\ resp' = UnhandledResp("TypeError")
    /\ UNCHANGED <<loadVars, envVars, reqVars, resolveVars, proxyVars>>

\* read_item (lines 102-109).
ReadItem ==
    /\ pc = "handler" /\ route = RouteIndex
    /\ resp' = TemplateResp
    /\ pc' = "done"
    /\ UNCHANGED <<loadVars, envVars, reqVars, resolveVars, proxyVars>>

\* share_url_parse up to its await (lines 113-118): .group() on a search that
\* found nothing raises AttributeError outside the try.
ShareUrlParse ==
    /\ pc = "handler" /\ route = RouteShare
    /\ LET m == Search(arg)
       IN IF ~m.found
          THEN /\ resp' = UnhandledResp("AttributeError")
               /\ pc' = "done"
               /\ UNCHANGED <<call, resolverCalls>>
          ELSE /\ call' = [made |-> TRUE, fn |-> "parse_video_share_url",
                           arg |-> m.group]
               /\ resolverCalls' = resolverCalls + 1
               /\ pc' = "await_resolver"
               /\ resp' = resp
    /\ UNCHANGED <<loadVars, envVars, reqVars, outcome, proxyVars>>

\* video_id_parse up to its await (lines 128-130).
VideoIdParse ==
    /\ pc = "handler" /\ route = RouteId
    /\ call' = [made |-> TRUE, fn |-> "parse_video_id", arg |-> arg]
    /\ resolverCalls' = resolverCalls + 1
    /\ pc' = "await_resolver"
    /\ UNCHANGED <<loadVars, envVars, reqVars, outcome, proxyVars, resp>>

\* The changed handler: a failed resolve is tried again.
ResolverReturnsRetry ==
    /\ pc = "await_resolver"
    /\ \E o \in ResolverOutcomes :
          /\ outcome' = o
          /\ IF ~o.ok /\ resolverCalls < 2
             THEN /\ resolverCalls' = resolverCalls + 1
                  /\ pc' = "await_resolver"
                  /\ resp' = resp
             ELSE /\ resolverCalls' = resolverCalls
                  /\ pc' = "done"
                  /\ resp' = ResolveResult(o)
    /\ UNCHANGED <<loadVars, envVars, reqVars, call, proxyVars>>

\* The awaited resolver answers and the handler returns (lines 118-124 and
\* 130-136).
ResolverReturns ==
    /\ pc = "await_resolver"
    /\ \E o \in ResolverOutcomes :
          /\ outcome' = o
          /\ resp' = ResolveResult(o)
    /\ pc' = "done"
    /\ UNCHANGED <<loadVars, envVars, reqVars, call, resolverCalls,
                   proxyVars>>

\* download_proxy up to its await (lines 62-81).
DownloadProxy ==
    /\ pc = "handler" /\ route = RouteProxy
    /\ IF arg = ""
       THEN /\ resp' = HTTPExceptionResp(400, "URL required")
            /\ pc' = "done"
            /\ UNCHANGED <<upreq, upstreamGets>>
       ELSE /\ upreq' = [url |-> arg, headers |-> ProxyHeaders]
            /\ upstreamGets' = upstreamGets + 1
            /\ pc' = "await_get"
            /\ resp' = resp
    /\ UNCHANGED <<loadVars, envVars, reqVars, resolveVars, upstream, stream,
                   delivered, streamError>>

\* The GET answers and download_proxy returns or raises (lines 81-98); leaving
\* the async with block closes the client.
UpstreamReturns ==
    /\ pc = "await_get"
    /\ \E up \in UpstreamOutcomes :
          /\ upstream' = up
          /\ stream' = IF up.failed THEN stream ELSE ClientGet(stream)
          /\ resp' = ProxyResult(up)
          /\ pc' = IF ProxyResult(up).via = "stream" THEN "send" ELSE "done"
    /\ UNCHANGED <<loadVars, envVars, reqVars, resolveVars, upreq,
                   upstreamGets, delivered, streamError>>

\* The server has sent the StreamingResponse's status and headers and now
\* iterates its body, resp.aiter_raw().
StreamBody ==
    /\ pc = "send"
    /\ LET it == AiterRaw(stream, upstream.body)
       IN /\ delivered' = it.bytes
          /\ streamError' = it.error
    /\ pc' = "done"
    /\ UNCHANGED <<loadVars, envVars, reqVars, resolveVars, upreq,
                   upstreamGets, upstream, stream, resp>>

\* The request is over; the next one starts from scratch.
Complete ==
    /\ pc = "done"
    /\ pc' = "idle"
    /\ route' = None
    /\ creds' = NoCreds
    /\ arg' = None
    /\ call' = NoCall
    /\ outcome' = NoOutcome
    /\ resolverCalls' = 0
    /\ upstreamGets' = 0
    /\ upreq' = NoRequest
    /\ upstream' = NoUpstream
    /\ stream' = FreshStream
    /\ resp' = NoResp
    /\ delivered' = <<>>
    /\ streamError' = None
    /\ UNCHANGED <<loadVars, envVars>>

\* The program as it stands.
Next ==
    \/ LoadModule
    \/ Refused
    \/ Complete

Spec == Init /\ [][Next]_vars

\* The program as it stands together with the handlers under the harness.
NextHarness ==
    \/ LoadModule
    \/ Refused
    \/ Arrive
    \/ RunDeps
    \/ ReadItem
    \/ ShareUrlParse
    \/ VideoIdParse
    \/ ResolverReturns
    \/ DownloadProxy
    \/ UpstreamReturns
    \/ StreamBody
    \/ Complete

SpecHarness == InitHarness /\ [][NextHarness]_vars

(***************************************************************************)
(* Notions the properties below are stated with.                           *)
(***************************************************************************)
\* The request's route is registered and its dependencies let it through to
\* the handler.
Admitted ==
    /\ route \in registered
    /\ RunDependencies(route, creds, envUser, envPass) = "ok"

\* The handler of route r has run for the request in hand.
HandlerRan(r) == route = r /\ pc \notin {"idle", "deps", "handler"} /\ Admitted

\* The kind of error a caller can read off a response: the exception behind
\* an error response, or the kind field of a returned body; None when the
\* response names no kind.
ErrorKindOf(r) ==
    IF r.via \in {"unhandled", "HTTPException"} THEN r.exc
    ELSE IF r.via = "return" /\ "kind" \in DOMAIN r.body THEN r.body.kind
    ELSE None

\* A URL begins at position j of text: a scheme, "://" and at least one host
\* character.
UrlBeginsAt(text, j) ==
    \/ /\ HasPrefix(text, j, <<"h", "t", "t", "p", ":", "/", "/">>)
       /\ j + 7 <= Len(text)
       /\ text[j + 7] \in HostChars
    \/ /\ HasPrefix(text, j, <<"h", "t", "t", "p", "s", ":", "/", "/">>)
       /\ j + 8 <= Len(text)
       /\ text[j + 8] \in HostChars

UrlBegins(text) == {j \in 1..Len(text) : UrlBeginsAt(text, j)}

\* The platform a proxied URL belongs to, by its host.
PlatformOfUrl(u) ==
    CASE u = "https://sns-video-bd.xhscdn.com/v.mp4" -> "xiaohongshu"
      [] u = "https://v.douyin.com/v.mp4" -> "douyin"
      [] OTHER -> "unknown"

\* The platform whose site a Referer names; "generic" for an empty one.
PlatformOfReferer(ref) ==
    CASE ref = "https://www.xiaohongshu.com/" -> "xiaohongshu"
      [] ref = "https://www.douyin.com/" -> "douyin"
      [] OTHER -> "generic"

\* Both variables are set and non-empty.
AuthConfigured == Truthy(envUser) /\ Truthy(envPass)

\* The request's credentials are the configured ones.
CredentialsMatch ==
    creds.present /\ creds.username = envUser /\ creds.password = envPass

(***************************************************************************)
(* Properties.                                                             *)
(***************************************************************************)

\* C1: a request to the share route whose text has no URL-shaped substring
\* (and that the auth gate lets through) ends in an InvalidInputError, never
\* in another kind of failure.
C1_NoUrlIsInvalidInput ==
    (route = RouteShare /\ pc = "done" /\ UrlBegins(arg) = {}
        /\ (AuthConfigured => CredentialsMatch))
        => ErrorKindOf(resp) = "InvalidInputError"

\* The handler alone, under the harness (C1): when share_url_parse has run
\* on such a text the outcome is an InvalidInputError.
Handler_NoUrlIsInvalidInput ==
    (HandlerRan(RouteShare) /\ pc = "done" /\ UrlBegins(arg) = {})
        => ErrorKindOf(resp) = "InvalidInputError"

\* The handler alone, under the harness (C2):
\* the response of download_proxy carries the upstream's status code and
\* the upstream's content-type (here: when the upstream states one), whatever
\* the upstream status.
Handler_StatusAndContentTypePreserved ==
    (HandlerRan(RouteProxy) /\ pc \in {"send", "done"} /\ upstreamGets = 1
        /\ ~upstream.failed /\ upstream.ctype # None)
        => (resp.status = upstream.status /\ resp.ctype = upstream.ctype)

\* The handler alone, under the harness (C3):
\* when the upstream answers 200 with an N-byte body, the caller gets
\* status 200 and a stream that delivers exactly those N bytes and ends.
Handler_StreamDeliversBody ==
    (HandlerRan(RouteProxy) /\ pc = "done" /\ upstreamGets = 1
        /\ ~upstream.failed /\ upstream.status = 200)
        => (resp.status = 200 /\ delivered = upstream.body
            /\ streamError = None)

\* The handler alone, under the harness (C4):
\* when the resolver fails with an error of some kind, the caller of
\* share_url_parse or video_id_parse gets an error of that same kind.
Handler_ErrorKindPassedThrough ==
    (pc = "done" /\ call.made /\ ~outcome.ok)
        => ErrorKindOf(resp) = outcome.kind

\* C5: no retries. One request calls the resolver at most once and issues at
\* most one upstream GET; once the call has failed the request is over, with
\* a failure result.
C5_NoRetry ==
    /\ resolverCalls <= 1
    /\ upstreamGets <= 1
    /\ (call.made /\ outcome # NoOutcome /\ ~outcome.ok)
          => (pc = "done" /\ resolverCalls = 1 /\ resp.body.code = 500)
    /\ (upstream # NoUpstream
          /\ (upstream.failed \/ RaisesForStatus(upstream.status)))
          => (pc = "done" /\ upstreamGets = 1 /\ resp.status >= 400)

\* C5 witness: a resolve whose single resolver call failed with NetworkError
\* has ended.
C5_Witness ==
    /\ pc = "done"
    /\ route = RouteShare
    /\ resolverCalls = 1
    /\ ~outcome.ok
    /\ outcome.kind = "NetworkError"

\* C6: for a share text that holds a URL, the identifier share_url_parse hands
\* to the resolver lies in the text at the leftmost position where a URL
\* begins, holds that URL's scheme and host, and stops before any white space:
\* it is the first URL of the text, not the whole text and not a later URL.
C6_FirstUrlPassed ==
    (route = RouteShare /\ pc \in {"await_resolver", "done"} /\ Admitted
        /\ UrlBegins(arg) # {})
        => /\ call.made
           /\ call.fn = "parse_video_share_url"
           /\ LET i == CHOOSE m \in UrlBegins(arg) :
                          \A n \in UrlBegins(arg) : m <= n
                  id == call.arg
              IN /\ Len(id) >= 8
                 /\ i + Len(id) - 1 <= Len(arg)
                 /\ SubSeq(arg, i, i + Len(id) - 1) = id
                 /\ UrlBeginsAt(id, 1)
                 /\ \A k \in 1..Len(id) : id[k] # " "
                 /\ Span(arg, i + (IF id[5] = "s" THEN 8 ELSE 7), HostChars)
                      <= Len(id) - (IF id[5] = "s" THEN 8 ELSE 7)

\* C6 witness: a text with free text before its first URL and a second URL
\* after it, and the resolver called with a proper part of the text.
C6_Witness ==
    /\ route = RouteShare
    /\ pc = "await_resolver"
    /\ call.made
    /\ Cardinality(UrlBegins(arg)) >= 2
    /\ 1 \notin UrlBegins(arg)
    /\ Len(call.arg) < Len(arg)

\* The handler alone, under the harness (C7):
\* Content-Length is passed through when the upstream gives one, and the
\* proxy response has none (in particular not "0") when the upstream has none.
Handler_ContentLengthPassthrough ==
    (HandlerRan(RouteProxy) /\ resp.via = "stream")
        => IF upstream.clen = None THEN resp.clen = None
           ELSE resp.clen = upstream.clen

\* The handler alone, under the harness (C8):
\* the Referer download_proxy sends upstream fits the target URL's
\* platform; for a URL of no known platform it is generic or empty, never
\* another platform's site.
Handler_RefererFitsPlatform ==
    (route = RouteProxy /\ upstreamGets = 1)
        => \/ PlatformOfReferer(upreq.headers.Referer) = "generic"
           \/ /\ PlatformOfUrl(upreq.url) # "unknown"
              /\ PlatformOfReferer(upreq.headers.Referer)
                   = PlatformOfUrl(upreq.url)

\* C9: on the gated routes, with both variables set every request whose
\* credentials do not match both is rejected with 401 and reaches neither the
\* resolver nor the template; with either variable unset or empty every
\* request is admitted (it is answered, and not with 401 or an auth error).
C9_AuthGate ==
    (route \in {RouteIndex, RouteShare, RouteId} /\ pc = "done")
        => IF AuthConfigured
           THEN ~CredentialsMatch
                  => (resp.status = 401 /\ ~call.made /\ resp # TemplateResp)
           ELSE resp.via # "refused" /\ resp.status # 401
                /\ resp.exc # "TypeError"

\* The dependency alone, under the harness (C9): the same gate for requests
\* to registered routes.
Handler_AuthGate ==
    (route \in {RouteIndex, RouteShare, RouteId} /\ route \in registered
        /\ pc \notin {"idle", "deps"})
        => IF AuthConfigured
           THEN ~CredentialsMatch
                  => (pc = "done" /\ resp.status = 401 /\ ~call.made
                      /\ resp # TemplateResp)
           ELSE resp.status # 401 /\ resp.exc # "TypeError"

\* C10: module evaluation ends without raising and with all four routes
\* registered.
C10_StartupCompletes ==
    Halted => (loadError = None /\ registered = Routes)

====
